---- MODULE Spec2Model ----
(***************************************************************************)
(* A model of rust-tuf's metadata.rs: the typed TUF metadata documents,    *)
(* their deserializers, Key::verify and DelegatedRole::could_have_target.  *)
(*                                                                         *)
(* The module is a library of pure functions.  Each function is an         *)
(* operator that computes what the Rust code computes; the state machine   *)
(* draws one input in Init and the action of the function the input is     *)
(* for applies it and stores the result.                                   *)
(***************************************************************************)
EXTENDS Integers, Sequences, FiniteSets, TLC

VARIABLES
    op,      \* the function that ran ("none" before the call)
    input,   \* the arguments of the call
    result,  \* Ok(value) or Err(error) returned by the call
    prim     \* the calls made to ring::signature::verify, in order

vars == <<op, input, result, prim>>

(***************************************************************************)
(* Result<T, E> and Option<T>.                                             *)
(***************************************************************************)
Ok(v) == [ok |-> TRUE, v |-> v]
Err(e) == [ok |-> FALSE, e |-> e]
NoResult == [none |-> TRUE]

(***************************************************************************)
(* json::Value.  An object is a function from its member names to values   *)
(* (serde_json's Map); an array is a sequence.                             *)
(***************************************************************************)
JNull == [t |-> "null"]
JBool(b) == [t |-> "bool", b |-> b]
JNum(n) == [t |-> "num", n |-> n]
\* an integer that does not fit 32 bits, kept as its decimal text
JWide(d) == [t |-> "num", wide |-> d]
IsWide(v) == "wide" \in DOMAIN v
JStr(s) == [t |-> "str", s |-> s]
JArr(a) == [t |-> "arr", a |-> a]
JObj(o) == [t |-> "obj", o |-> o]

EmptyMap == [k \in {} |-> JNull]
\* the map m with member k set to v
With(m, k, v) == [x \in (DOMAIN m) \cup {k} |-> IF x = k THEN v ELSE m[x]]
\* the map m without member k (what is left after object.remove(k))
Without(m, k) == [x \in (DOMAIN m) \ {k} |-> m[x]]
\* object.remove(k) is Some(_)
Has(m, k) == k \in DOMAIN m

\* serde's Unexpected rendering of a value's type in "invalid type" errors
Unexpected(v) ==
    CASE v.t = "null" -> "null"
      [] v.t = "bool" -> "boolean"
      [] v.t = "num"  -> "integer"
      [] v.t = "str"  -> "string"
      [] v.t = "arr"  -> "sequence"
      [] v.t = "obj"  -> "map"

InvalidType(v, expected) == "invalid type: " \o Unexpected(v) \o ", expected " \o expected

\* DeserializeError::custom(format!("<prefix>{}", e)) applied by map_err
MapErr(r, prefix) == IF r.ok THEN r ELSE Err(prefix \o r.e)

\* the first Err among a sequence of results, else Ok of the values
Collect(rs) ==
    IF \E i \in DOMAIN rs : ~rs[i].ok
    THEN LET first == CHOOSE i \in DOMAIN rs :
                        /\ ~rs[i].ok
                        /\ \A j \in DOMAIN rs : j < i => rs[j].ok
         IN  Err(rs[first].e)
    ELSE Ok([i \in DOMAIN rs |-> rs[i].v])

(***************************************************************************)
(* Bounds of the explored inputs.                                          *)
(***************************************************************************)
MaxPatLen == 2
MaxTargetLen == 3
MaxPatterns == 2
MaxKeyIds == 2
MaxThreshold == 2
MaxSigs == 2
MaxRoles == 2

(***************************************************************************)
(* KeyType, SignatureScheme, KeyValue, Key.                                *)
(***************************************************************************)
KeyType_Ed25519 == [tag |-> "Ed25519"]
KeyType_Rsa == [tag |-> "Rsa"]
KeyType_Unsupported(s) == [tag |-> "Unsupported", name |-> s]

Scheme_Ed25519 == [tag |-> "Ed25519"]
Scheme_RsaSsaPssSha256 == [tag |-> "RsaSsaPssSha256"]
Scheme_RsaSsaPssSha512 == [tag |-> "RsaSsaPssSha512"]
Scheme_Unsupported(s) == [tag |-> "Unsupported", name |-> s]

\* error::Error values returned by verification
UnsupportedKeyType(s) == [kind |-> "UnsupportedKeyType", msg |-> s]
UnsupportedSignatureScheme(s) == [kind |-> "UnsupportedSignatureScheme", msg |-> s]
VerificationFailure(s) == [kind |-> "VerificationFailure", msg |-> s]
\* Error::Generic(format!("Signature scheme mismatch: Key {:?}, Scheme {:?}", ..))
Generic(s, key, scheme) == [kind |-> "Generic", msg |-> s, key |-> key, scheme |-> scheme]

\* a supports that also lets an Rsa key through with the Ed25519 scheme
supports_AnyKnownPair(typ, scheme) ==
    typ.tag \in {"Ed25519", "Rsa"} /\ scheme.tag # "Unsupported"

\* KeyType::supports
supports(typ, scheme) ==
    CASE typ.tag = "Ed25519" /\ scheme.tag = "Ed25519" -> TRUE
      [] typ.tag = "Rsa" /\ scheme.tag = "RsaSsaPssSha256" -> TRUE
      [] typ.tag = "Rsa" /\ scheme.tag = "RsaSsaPssSha512" -> TRUE
      [] OTHER -> FALSE

\* rsa::convert_to_pkcs1: the raw key bytes wrapped into the PKCS#1 form
Pkcs1Tag == 48
convert_to_pkcs1(bytes) == <<Pkcs1Tag>> \o bytes

\* the ring verification algorithm a scheme selects
Alg(scheme) ==
    CASE scheme.tag = "Ed25519" -> "ED25519"
      [] scheme.tag = "RsaSsaPssSha256" -> "RSA_PSS_2048_8192_SHA256"
      [] scheme.tag = "RsaSsaPssSha512" -> "RSA_PSS_2048_8192_SHA512"

\* The one signature an idealised signer with the given public key produces
\* for a message under an algorithm.
AlgCode(alg) ==
    CASE alg = "ED25519" -> 1
      [] alg = "RSA_PSS_2048_8192_SHA256" -> 2
      [] alg = "RSA_PSS_2048_8192_SHA512" -> 3
SignatureOf(alg, pk, msg) == <<AlgCode(alg)>> \o pk \o msg

\* ring::signature::verify(alg, public_key, msg, sig).is_ok()
RingVerify(alg, pk, msg, sig) == sig = SignatureOf(alg, pk, msg)

\* a verify that re-encodes the key only when the KeyValue's own, inferred
\* type is Rsa
SignatureScheme_verify_ByInferredType(scheme, pub_key, msg, sig) ==
    IF scheme.tag = "Unsupported"
    THEN [res |-> Err(UnsupportedSignatureScheme(scheme.name)), calls |-> <<>>]
    ELSE LET alg == Alg(scheme)
             pk == IF pub_key.typ.tag = "Rsa"
                   THEN convert_to_pkcs1(pub_key.value)
                   ELSE pub_key.value
             call == [alg |-> alg, key |-> pk, raw |-> pub_key.value,
                      msg |-> msg, sig |-> sig]
         IN  [res |-> IF RingVerify(alg, pk, msg, sig)
                      THEN Ok("unit")
                      ELSE Err(VerificationFailure("Bad signature")),
              calls |-> <<call>>]

\* SignatureScheme::verify: the result and the calls it made to ring
SignatureScheme_verify(scheme, pub_key, msg, sig) ==
    IF scheme.tag = "Unsupported"
    THEN [res |-> Err(UnsupportedSignatureScheme(scheme.name)), calls |-> <<>>]
    ELSE LET alg == Alg(scheme)
             pk == convert_to_pkcs1(pub_key.value)
             call == [alg |-> alg, key |-> pk, raw |-> pub_key.value,
                      msg |-> msg, sig |-> sig]
         IN  [res |-> IF RingVerify(alg, pk, msg, sig)
                      THEN Ok("unit")
                      ELSE Err(VerificationFailure("Bad signature")),
              calls |-> <<call>>]

\* Key::verify
Key_verify(key, scheme, msg, sig) ==
    IF supports(key.typ, scheme)
    THEN IF key.typ.tag = "Unsupported"
         THEN [res |-> Err(UnsupportedKeyType(key.typ.name)), calls |-> <<>>]
         ELSE SignatureScheme_verify(scheme, key.value, msg, sig)
    ELSE [res |-> Err(Generic("Signature scheme mismatch", key, scheme)),
          calls |-> <<>>]

(***************************************************************************)
(* Inputs of Key::verify.                                                  *)
(***************************************************************************)
KeyTypes == {KeyType_Ed25519, KeyType_Rsa,
             KeyType_Unsupported("ecdsa"), KeyType_Unsupported("rsa-old")}
\* KeyValue.typ is the type inferred from the encoding: Ed25519 or Rsa
InferredTypes == {KeyType_Ed25519, KeyType_Rsa}
Schemes == {Scheme_Ed25519, Scheme_RsaSsaPssSha256, Scheme_RsaSsaPssSha512,
            Scheme_Unsupported("ecdsa-sha2"), Scheme_Unsupported("rsa-pkcs1")}
SupportedSchemes == {s \in Schemes : s.tag # "Unsupported"}
KeyBytes == {<<7>>, <<9>>}
Messages == {<<1>>, <<2>>}
OriginalOf(bytes) == IF bytes = <<7>> THEN "07" ELSE "09"
KeyValues ==
    {[value |-> b, original |-> OriginalOf(b), typ |-> t] :
        b \in KeyBytes, t \in InferredTypes}
Keys == {[typ |-> t, value |-> kv] : t \in KeyTypes, kv \in KeyValues}
\* every signature a signer holding one of the keys can produce, handed to
\* ring with or without the re-encoding, and a signature nobody produced
SignatureValues ==
    {SignatureOf(Alg(s), convert_to_pkcs1(b), m) :
        s \in SupportedSchemes, b \in KeyBytes, m \in Messages}
    \cup {SignatureOf("ED25519", b, <<1>>) : b \in KeyBytes}
    \cup {<<>>}
VerifyInputs ==
    {[kind |-> "verify", key |-> k, scheme |-> s, msg |-> m, sig |-> g] :
        k \in Keys, s \in Schemes, m \in Messages, g \in SignatureValues}

(***************************************************************************)
(* DelegatedRole::could_have_target.                                       *)
(***************************************************************************)
CharAt(s, i) == SubSeq(s, i, i)

\* str::ends_with
ends_with(s, suffix) ==
    /\ Len(s) >= Len(suffix)
    /\ SubSeq(s, Len(s) - Len(suffix) + 1, Len(s)) = suffix
\* str::starts_with
starts_with(s, prefix) ==
    /\ Len(s) >= Len(prefix)
    /\ SubSeq(s, 1, Len(prefix)) = prefix

\* the for loop over patterns.iter(), from the i-th pattern on
RECURSIVE PatternsLoop(_, _, _)
PatternsLoop(patterns, target, i) ==
    IF i > Len(patterns) THEN FALSE
    ELSE LET path_str == patterns[i] IN
         IF path_str = target THEN TRUE
         ELSE IF ends_with(path_str, "/") /\ starts_with(target, path_str) THEN TRUE
         ELSE PatternsLoop(patterns, target, i + 1)

\* a could_have_target that takes every pattern as a prefix, slash or not
could_have_target_AnyPrefix(role, target) ==
    \E i \in 1..Len(role.paths) :
        role.paths[i] = target \/ starts_with(target, role.paths[i])

could_have_target(role, target) == PatternsLoop(role.paths, target, 1)

PathChars == {"a", "/"}
RECURSIVE StringsUpTo(_)
StringsUpTo(n) ==
    IF n = 0 THEN {""}
    ELSE LET shorter == StringsUpTo(n - 1)
         IN  shorter \cup {s \o c : s \in shorter, c \in PathChars}
RECURSIVE SeqsUpTo(_, _)
SeqsUpTo(S, n) ==
    IF n = 0 THEN {<<>>}
    ELSE LET shorter == SeqsUpTo(S, n - 1)
         IN  shorter \cup {Append(q, x) : q \in shorter, x \in S}

\* the vectors of test::delegated_role_could_have_target
TestVectors ==
    {<<"foo", "foo", TRUE>>,
     <<"foo/", "foo/bar", TRUE>>,
     <<"foo", "foo/bar", FALSE>>,
     <<"foo/bar", "foo/baz", FALSE>>,
     <<"foo/bar/", "foo/bar/baz", TRUE>>}

\* a DelegatedRole as the test constructs it, with the given patterns
RoleWithPaths(ps) ==
    [name |-> "", key_ids |-> <<>>, threshold |-> 1, terminating |-> FALSE,
     paths |-> ps]

TargetInputs ==
    {[kind |-> "could_have_target", role |-> RoleWithPaths(ps), target |-> t] :
        ps \in SeqsUpTo(StringsUpTo(MaxPatLen), MaxPatterns),
        t \in StringsUpTo(MaxTargetLen)}
    \cup
    {[kind |-> "could_have_target", role |-> RoleWithPaths(<<v[1]>>), target |-> w[2]] :
        v \in TestVectors, w \in TestVectors}

(***************************************************************************)
(* serde_json::from_value for the primitive types the documents use.       *)
(***************************************************************************)
\* from_value::<String>
String_deserialize(v) ==
    IF v.t = "str" THEN Ok(v.s) ELSE Err(InvalidType(v, "a string"))

\* from_value::<i32>: a number outside the 32-bit range is an error
i32_deserialize(v) ==
    IF v.t = "num"
    THEN IF ~IsWide(v)
         THEN Ok(v.n)
         ELSE Err("invalid value: integer " \o v.wide \o ", expected i32")
    ELSE Err(InvalidType(v, "i32"))

\* from_value::<i64>: the explored numbers all fit 64 bits
i64_deserialize(v) ==
    IF v.t = "num"
    THEN IF IsWide(v) THEN Ok(v.wide) ELSE Ok(ToString(v.n))
    ELSE Err(InvalidType(v, "i64"))

\* from_value::<bool>
bool_deserialize(v) ==
    IF v.t = "bool" THEN Ok(v.b) ELSE Err(InvalidType(v, "a boolean"))

\* from_value::<Vec<String>>
VecString_deserialize(v) ==
    IF v.t = "arr"
    THEN Collect([i \in 1..Len(v.a) |-> String_deserialize(v.a[i])])
    ELSE Err(InvalidType(v, "a sequence"))

\* chrono's Deserialize for DateTime<Utc>: an RFC 3339 string
Rfc3339Strings == {"2030-01-01T00:00:00Z", "2038-01-19T03:14:07Z"}
DateTime_deserialize(v) ==
    IF v.t = "str"
    THEN IF v.s \in Rfc3339Strings
         THEN Ok([utc |-> v.s])
         ELSE Err("input is not RFC 3339")
    ELSE Err(InvalidType(v, "a formatted date and time string"))

(***************************************************************************)
(* data_encoding::HEXLOWER.decode: two lowercase hex digits per byte.      *)
(***************************************************************************)
HexDigits == "0123456789abcdef"
IsHexDigit(c) == \E d \in 1..Len(HexDigits) : SubSeq(HexDigits, d, d) = c
HexDigitValue(c) == (CHOOSE d \in 1..Len(HexDigits) : SubSeq(HexDigits, d, d) = c) - 1

HEXLOWER_decode(s) ==
    IF Len(s) % 2 # 0 THEN Err("invalid length")
    ELSE IF \E i \in 1..Len(s) : ~IsHexDigit(CharAt(s, i)) THEN Err("invalid symbol")
    ELSE Ok([i \in 1..(Len(s) \div 2) |->
                16 * HexDigitValue(CharAt(s, 2 * i - 1)) + HexDigitValue(CharAt(s, 2 * i))])

(***************************************************************************)
(* KeyId, KeyType, SignatureScheme, HashType, SignatureValue, HashValue.   *)
(***************************************************************************)
\* impl Deserialize for KeyId
KeyId_deserialize(v) ==
    IF v.t = "str" THEN Ok(v.s) ELSE Err("Key ID was not a string")

\* from_value::<Vec<KeyId>>
VecKeyId_deserialize(v) ==
    IF v.t = "arr"
    THEN Collect([i \in 1..Len(v.a) |-> KeyId_deserialize(v.a[i])])
    ELSE Err(InvalidType(v, "a sequence"))

\* impl FromStr for KeyType
KeyType_from_str(s) ==
    CASE s = "ed25519" -> Ok(KeyType_Ed25519)
      [] s = "rsa" -> Ok(KeyType_Rsa)
      [] OTHER -> Ok(KeyType_Unsupported(s))

\* impl Deserialize for KeyType
KeyType_deserialize(v) ==
    IF v.t = "str" THEN KeyType_from_str(v.s) ELSE Err("Key type was not a string")

\* impl FromStr for SignatureScheme
SignatureScheme_from_str(s) ==
    CASE s = "ed25519" -> Ok(Scheme_Ed25519)
      [] s = "rsassa-pss-sha256" -> Ok(Scheme_RsaSsaPssSha256)
      [] s = "rsassa-pss-sha512" -> Ok(Scheme_RsaSsaPssSha512)
      [] OTHER -> Ok(Scheme_Unsupported(s))

\* impl Deserialize for SignatureScheme
SignatureScheme_deserialize(v) ==
    IF v.t = "str" THEN SignatureScheme_from_str(v.s) ELSE Err("Key type was not a string")

HashType_Sha256 == [tag |-> "Sha256"]
HashType_Sha512 == [tag |-> "Sha512"]
HashType_Unsupported(s) == [tag |-> "Unsupported", name |-> s]

\* a from_str that refuses the names it does not know
HashType_from_str_Strict(s) ==
    CASE s = "sha256" -> Ok(HashType_Sha256)
      [] s = "sha512" -> Ok(HashType_Sha512)
      [] OTHER -> Err("unknown hash type")

\* impl FromStr for HashType
HashType_from_str(s) ==
    CASE s = "sha256" -> Ok(HashType_Sha256)
      [] s = "sha512" -> Ok(HashType_Sha512)
      [] OTHER -> Ok(HashType_Unsupported(s))

\* impl Deserialize for HashType
HashType_deserialize(v) ==
    IF v.t = "str" THEN HashType_from_str(v.s) ELSE Err("Hash type was not a string")

\* impl Deserialize for SignatureValue
SignatureValue_deserialize(v) ==
    IF v.t = "str"
    THEN MapErr(HEXLOWER_decode(v.s), "Signature value was not hex: ")
    ELSE Err("Signature value was not a string")

\* impl Deserialize for HashValue
HashValue_deserialize(v) ==
    IF v.t = "str"
    THEN MapErr(HEXLOWER_decode(v.s), "Hash value was not hex: ")
    ELSE Err("Hash value was not a string")

(***************************************************************************)
(* Signature and the SignedMetadata envelope.                              *)
(***************************************************************************)
\* impl Deserialize for Signature
Signature_deserialize(v) ==
    IF v.t = "obj"
    THEN IF Has(v.o, "keyid") /\ Has(v.o, "method") /\ Has(v.o, "sig")
         THEN LET key_id == MapErr(KeyId_deserialize(v.o["keyid"]), "Failed at keyid: ")
                  method == MapErr(SignatureScheme_deserialize(v.o["method"]),
                                   "Failed at method: ")
                  sig == MapErr(SignatureValue_deserialize(v.o["sig"]), "Failed at sig: ")
              IN  IF ~key_id.ok THEN key_id
                  ELSE IF ~method.ok THEN method
                  ELSE IF ~sig.ok THEN sig
                  ELSE Ok([key_id |-> key_id.v, method |-> method.v, sig |-> sig.v])
         ELSE Err("Signature missing fields")
    ELSE Err("Signature was not an object")

\* a Vec<Signature> filled back to front
VecSignature_deserialize_Reversed(v) ==
    IF v.t = "arr"
    THEN Collect([i \in 1..Len(v.a) |-> Signature_deserialize(v.a[Len(v.a) + 1 - i])])
    ELSE Err(InvalidType(v, "a sequence"))

\* a Vec<Signature> that leaves out the entries that do not parse
VecSignature_deserialize_SkipMalformed(v) ==
    IF v.t = "arr"
    THEN LET rs == [i \in 1..Len(v.a) |-> Signature_deserialize(v.a[i])]
             good == SelectSeq(rs, LAMBDA r : r.ok)
         IN  Ok([i \in 1..Len(good) |-> good[i].v])
    ELSE Err(InvalidType(v, "a sequence"))

\* from_value::<Vec<Signature>>
VecSignature_deserialize(v) ==
    IF v.t = "arr"
    THEN Collect([i \in 1..Len(v.a) |-> Signature_deserialize(v.a[i])])
    ELSE Err(InvalidType(v, "a sequence"))

\* an envelope parser that fills in what is missing
SignedMetadata_deserialize_Defaulting(v) ==
    IF v.t = "obj"
    THEN LET signatures ==
                 IF Has(v.o, "signatures") /\ v.o["signatures"].t = "arr"
                 THEN MapErr(VecSignature_deserialize(v.o["signatures"]),
                             "Bad signature data: ")
                 ELSE Ok(<<>>)
             signed ==
                 IF Has(v.o, "signed") /\ v.o["signed"].t = "obj"
                 THEN v.o["signed"] ELSE JObj(EmptyMap)
         IN  IF ~signatures.ok THEN signatures
             ELSE Ok([signatures |-> signatures.v, signed |-> signed])
    ELSE Err("Metadata was not an object")

\* impl Deserialize for SignedMetadata<R>
SignedMetadata_deserialize(v) ==
    IF v.t = "obj"
    THEN IF /\ Has(v.o, "signatures") /\ v.o["signatures"].t = "arr"
            /\ Has(v.o, "signed") /\ v.o["signed"].t = "obj"
         THEN LET signatures == MapErr(VecSignature_deserialize(v.o["signatures"]),
                                       "Bad signature data: ")
              IN  IF ~signatures.ok THEN signatures
                  ELSE Ok([signatures |-> signatures.v, signed |-> v.o["signed"]])
         ELSE Err("Metadata missing 'signed' or 'signatures' section")
    ELSE Err("Metadata was not an object")

(***************************************************************************)
(* RoleDefinition.                                                         *)
(***************************************************************************)
\* a threshold check that lets zero through
InvalidThreshold_NegativeOnly(threshold) == threshold < 0

\* the check `if threshold <= 0` of RoleDefinition's deserialize
InvalidThreshold(threshold) == threshold <= 0

\* impl Deserialize for RoleDefinition
RoleDefinition_deserialize(v) ==
    IF v.t = "obj"
    THEN IF ~Has(v.o, "keyids") THEN Err("Field 'keyids' missing")
         ELSE LET key_ids == MapErr(VecKeyId_deserialize(v.o["keyids"]),
                                    "Field 'keyids' not a valid array: ")
              IN  IF ~key_ids.ok THEN key_ids
                  ELSE IF ~Has(v.o, "threshold") THEN Err("Field 'threshold' missing")
                  ELSE LET threshold == MapErr(i32_deserialize(v.o["threshold"]),
                                               "Field 'threshold' not a an int: ")
                       IN  IF ~threshold.ok THEN threshold
                           ELSE IF InvalidThreshold(threshold.v)
                           THEN Err("'threshold' must be >= 1")
                           ELSE Ok([key_ids |-> key_ids.v, threshold |-> threshold.v])
    ELSE Err("Role definition was not an object")

(***************************************************************************)
(* DelegatedRole.                                                          *)
(***************************************************************************)
\* arms tried with the two path_hash_prefixes arms in the other order
DelegatedRoleArm_Swapped(object) ==
    IF /\ Has(object, "name") /\ Has(object, "keyids") /\ Has(object, "threshold")
       /\ Has(object, "terminating") /\ Has(object, "paths")
       /\ ~Has(object, "path_hash_prefixes")
    THEN "fields"
    ELSE IF Has(object, "path_hash_prefixes") THEN "unsupported"
    ELSE IF Has(object, "paths") /\ Has(object, "path_hash_prefixes") THEN "exclusive"
    ELSE "missing"

\* the arm of DelegatedRole's match that the six removed members select
DelegatedRoleArm(object) ==
    IF /\ Has(object, "name") /\ Has(object, "keyids") /\ Has(object, "threshold")
       /\ Has(object, "terminating") /\ Has(object, "paths")
       /\ ~Has(object, "path_hash_prefixes")
    THEN "fields"
    ELSE IF Has(object, "paths") /\ Has(object, "path_hash_prefixes") THEN "exclusive"
    ELSE IF Has(object, "path_hash_prefixes") THEN "unsupported"
    ELSE "missing"

\* impl Deserialize for DelegatedRole
DelegatedRole_deserialize(v) ==
    IF v.t = "obj"
    THEN IF DelegatedRoleArm(v.o) = "fields"
         THEN LET name == MapErr(String_deserialize(v.o["name"]), "Failed at name: ")
                  key_ids == MapErr(VecKeyId_deserialize(v.o["keyids"]), "Failed at keyids: ")
                  threshold == MapErr(i32_deserialize(v.o["threshold"]),
                                      "Failed at treshold: ")
                  terminating == MapErr(bool_deserialize(v.o["terminating"]),
                                        "Failed at treshold: ")
                  paths == MapErr(VecString_deserialize(v.o["paths"]),
                                  "Failed at treshold: ")
              IN  IF ~name.ok THEN name
                  ELSE IF ~key_ids.ok THEN key_ids
                  ELSE IF ~threshold.ok THEN threshold
                  ELSE IF ~terminating.ok THEN terminating
                  ELSE IF ~paths.ok THEN paths
                  ELSE Ok([name |-> name.v, key_ids |-> key_ids.v,
                           threshold |-> threshold.v, terminating |-> terminating.v,
                           paths |-> paths.v])
         ELSE IF DelegatedRoleArm(v.o) = "exclusive"
         THEN Err("Fields 'paths' or 'pash_hash_prefixes' are mutually exclusive")
         ELSE IF DelegatedRoleArm(v.o) = "unsupported"
         THEN Err("'pash_hash_prefixes' is not yet supported")
         ELSE Err("Signature missing fields")
    ELSE Err("Delegated role was not an object")

(***************************************************************************)
(* Structs with #[derive(Deserialize)] and HashMap<K, V>, both read from a *)
(* json::Value whose object members are visited in the order of their      *)
(* names (serde_json's Map is a BTreeMap).                                 *)
(***************************************************************************)
None == [none |-> TRUE]
Some(x) == [some |-> x]

\* every member name the explored documents use, in byte order
NameOrder ==
    <<"bin", "custom", "hashes", "k1", "k2", "keys", "keytype", "keyval",
      "length", "md5", "note", "roles", "root.json", "sha256", "sha512",
      "version">>
Rank(k) == CHOOSE i \in 1..Len(NameOrder) : NameOrder[i] = k
FirstByName(S) == CHOOSE k \in S : \A j \in S : Rank(k) <= Rank(j)
Range(q) == {q[i] : i \in 1..Len(q)}

\* the members a derived struct reads from a value: the known members of
\* an object, or the elements of an array taken as the fields in order
StructMembers(v, fields) ==
    IF v.t = "obj"
    THEN [f \in {x \in Range(fields) : Has(v.o, x)} |-> v.o[f]]
    ELSE IF v.t = "arr"
    THEN [f \in {fields[i] : i \in 1..(IF Len(v.a) < Len(fields)
                                        THEN Len(v.a) ELSE Len(fields))} |->
            v.a[CHOOSE i \in 1..Len(fields) : fields[i] = f]]
    ELSE EmptyMap

\* A derived struct, rs being the result of each of StructMembers through its
\* field's deserializer.  From an object each known member is parsed as it is
\* visited, unknown members are skipped, then the first declared field that
\* was not seen and is not an Option is reported missing.  From an array the
\* fields are taken by position.
DeriveStruct(v, struct, fields, optional, rs) ==
    IF v.t = "obj"
    THEN LET failing == {f \in DOMAIN rs : ~rs[f].ok}
             missing == {i \in 1..Len(fields) :
                            fields[i] \notin DOMAIN rs /\ fields[i] \notin optional}
         IN  IF failing # {}
             THEN Err(rs[FirstByName(failing)].e)
             ELSE IF missing # {}
             THEN Err("missing field " \o
                      fields[CHOOSE i \in missing : \A j \in missing : i <= j])
             ELSE Ok([f \in Range(fields) |->
                        IF f \in DOMAIN rs THEN rs[f].v ELSE None])
    ELSE IF v.t = "arr"
    THEN LET n == Cardinality(DOMAIN rs)
             inOrder == Collect([i \in 1..n |-> rs[fields[i]]])
         IN  IF ~inOrder.ok THEN inOrder
             ELSE IF Len(v.a) < Len(fields)
             THEN Err("invalid length " \o ToString(Len(v.a)) \o ", expected struct "
                      \o struct)
             ELSE IF Len(v.a) > Len(fields)
             THEN Err("invalid length " \o ToString(Len(v.a))
                      \o ", expected fewer elements in array")
             ELSE Ok([f \in Range(fields) |-> rs[f].v])
    ELSE Err(InvalidType(v, "struct " \o struct))

\* the entries a HashMap reads from a value
MapMembers(v) == IF v.t = "obj" THEN v.o ELSE EmptyMap

\* from_value::<HashMap<K, V>>, ks and vs being the result of each entry's
\* name through K's deserializer and of its value through V's: the entries
\* are read in the order of their names
HashMap_deserialize(v, ks, vs) ==
    IF v.t = "obj"
    THEN LET failing == {k \in DOMAIN v.o : ~ks[k].ok \/ ~vs[k].ok}
         IN  IF failing # {}
             THEN LET k == FirstByName(failing)
                  IN  IF ~ks[k].ok THEN Err(ks[k].e) ELSE Err(vs[k].e)
             ELSE Ok([x \in {ks[k].v : k \in DOMAIN v.o} |->
                        vs[CHOOSE k \in DOMAIN v.o : ks[k].v = x].v])
    ELSE Err(InvalidType(v, "a map"))

\* from_value::<Option<T>>, r being the value through T's deserializer:
\* null is None
Option_deserialize(v, r) ==
    IF v.t = "null" THEN Ok(None)
    ELSE IF r.ok THEN Ok(Some(r.v)) ELSE r

(***************************************************************************)
(* pem::parse: the base64 body between the BEGIN and END lines.            *)
(***************************************************************************)
Base64Alphabet == "ABCDEFGHIJKLMNOPQRSTUVWXYZabcdefghijklmnopqrstuvwxyz0123456789+/"
IsBase64(c) == \E d \in 1..Len(Base64Alphabet) : CharAt(Base64Alphabet, d) = c
Base64Value(c) == (CHOOSE d \in 1..Len(Base64Alphabet) : CharAt(Base64Alphabet, d) = c) - 1
IsSpace(c) == c \in {" ", "\n", "\r", "\t"}

RECURSIVE StripSpace(_)
StripSpace(s) ==
    IF Len(s) = 0 THEN ""
    ELSE IF IsSpace(CharAt(s, 1)) THEN StripSpace(SubSeq(s, 2, Len(s)))
    ELSE CharAt(s, 1) \o StripSpace(SubSeq(s, 2, Len(s)))

\* the bytes of one group of four base64 characters
Base64Group(g) ==
    LET c(i) == CharAt(g, i)
        val(i) == Base64Value(c(i))
    IN  IF ~(IsBase64(c(1)) /\ IsBase64(c(2))) THEN Err("invalid base64")
        ELSE IF c(3) = "=" /\ c(4) = "="
        THEN Ok(<<4 * val(1) + (val(2) \div 16)>>)
        ELSE IF ~IsBase64(c(3)) THEN Err("invalid base64")
        ELSE IF c(4) = "="
        THEN Ok(<<4 * val(1) + (val(2) \div 16),
                  16 * (val(2) % 16) + (val(3) \div 4)>>)
        ELSE IF ~IsBase64(c(4)) THEN Err("invalid base64")
        ELSE Ok(<<4 * val(1) + (val(2) \div 16),
                  16 * (val(2) % 16) + (val(3) \div 4),
                  64 * (val(3) % 4) + val(4)>>)

RECURSIVE Base64_decode(_)
Base64_decode(s) ==
    IF Len(s) = 0 THEN Ok(<<>>)
    ELSE IF Len(s) < 4 THEN Err("invalid base64")
    ELSE LET head == Base64Group(SubSeq(s, 1, 4))
             padded == CharAt(s, 4) = "="
             rest == Base64_decode(SubSeq(s, 5, Len(s)))
         IN  IF ~head.ok THEN head
             ELSE IF padded /\ Len(s) > 4 THEN Err("invalid base64")
             ELSE IF ~rest.ok THEN rest
             ELSE Ok(head.v \o rest.v)

PemBegin == "-----BEGIN PUBLIC KEY-----"
PemEnd == "-----END PUBLIC KEY-----"

pem_parse(s) ==
    IF /\ Len(s) >= Len(PemBegin) + Len(PemEnd)
       /\ starts_with(s, PemBegin)
       /\ ends_with(s, PemEnd)
    THEN MapErr(Base64_decode(StripSpace(
                    SubSeq(s, Len(PemBegin) + 1, Len(s) - Len(PemEnd)))),
                "")
    ELSE Err("malformedframing")

(***************************************************************************)
(* KeyValue and Key.                                                       *)
(***************************************************************************)
\* impl Deserialize for KeyValue
RECURSIVE KeyValue_deserialize(_)
KeyValue_deserialize(v) ==
    IF v.t = "str"
    THEN IF starts_with(v.s, "-----")
         THEN LET p == pem_parse(v.s)
              IN  IF p.ok
                  THEN Ok([value |-> p.v, original |-> v.s, typ |-> KeyType_Rsa])
                  ELSE Err("Key was not PEM encoded: " \o p.e)
         ELSE LET h == HEXLOWER_decode(v.s)
              IN  IF h.ok
                  THEN Ok([value |-> h.v, original |-> v.s, typ |-> KeyType_Ed25519])
                  ELSE Err("Key value was not hex: " \o h.e)
    ELSE IF v.t = "obj"
    THEN IF ~Has(v.o, "public") THEN Err("Field 'public' missing")
         ELSE MapErr(KeyValue_deserialize(v.o["public"]),
                     "Field 'public' not encoded correctly: ")
    ELSE Err("Key value was not a string or object")

\* the fields of #[derive(Deserialize)] struct Key
Key_field(f, v) ==
    IF f = "keytype" THEN KeyType_deserialize(v) ELSE KeyValue_deserialize(v)

\* #[derive(Deserialize)] for Key
Key_deserialize(v) ==
    LET fields == <<"keytype", "keyval">>
        given == StructMembers(v, fields)
        r == DeriveStruct(v, "Key", fields, {},
                          [f \in DOMAIN given |-> Key_field(f, given[f])])
    IN  IF r.ok THEN Ok([typ |-> r.v["keytype"], value |-> r.v["keyval"]]) ELSE r

\* from_value::<HashMap<KeyId, Key>>
KeyMap_deserialize(v) ==
    LET given == MapMembers(v)
    IN  HashMap_deserialize(v, [k \in DOMAIN given |-> KeyId_deserialize(JStr(k))],
                               [k \in DOMAIN given |-> Key_deserialize(given[k])])

(***************************************************************************)
(* KeyValue::key_id.                                                       *)
(***************************************************************************)
\* the JSON text of a string: its characters between quotes, with the quote,
\* the backslash and the line feed escaped
RECURSIVE EscapeStr(_)
EscapeStr(s) ==
    IF Len(s) = 0 THEN ""
    ELSE LET c == CharAt(s, 1)
             e == CASE c = "\"" -> "\\\""
                    [] c = "\\" -> "\\\\"
                    [] c = "\n" -> "\\n"
                    [] OTHER -> c
         IN  e \o EscapeStr(SubSeq(s, 2, Len(s)))

\* cjson::canonicalize of a json::Value::String
canonicalize(v) == Ok("\"" \o EscapeStr(v.s) \o "\"")

\* ring::digest::digest, kept symbolic: the digest of a text is the text
\* under the name of the algorithm, so that equal digests have equal inputs
digest(alg, data) == alg \o "(" \o data \o ")"

\* HEXLOWER.encode of a digest, kept symbolic in the same way
HEXLOWER_encode(d) == "hex[" \o d \o "]"

\* a key_id that drops white space from the key string before hashing it
key_id_Trimmed(kv) ==
    IF kv.typ.tag = "Unsupported" THEN "error"
    ELSE HEXLOWER_encode(digest("SHA256",
            canonicalize(JStr(StripSpace(kv.original))).v))

\* KeyValue::key_id
key_id(kv) ==
    IF kv.typ.tag = "Unsupported" THEN "error"
    ELSE HEXLOWER_encode(digest("SHA256", canonicalize(JStr(kv.original)).v))

(***************************************************************************)
(* Role and RootMetadata.                                                  *)
(***************************************************************************)
Role_Root == [tag |-> "Root"]
Role_Targets == [tag |-> "Targets"]
Role_Timestamp == [tag |-> "Timestamp"]
Role_Snapshot == [tag |-> "Snapshot"]
Role_TargetsDelegation(s) == [tag |-> "TargetsDelegation", name |-> s]
UnitRoles == {"Root", "Targets", "Timestamp", "Snapshot"}

\* #[derive(Deserialize)] for enum Role: a unit variant is its name as a
\* string, or an object {name: null}; TargetsDelegation is {name: string}
Role_deserialize(v) ==
    IF v.t = "str"
    THEN IF v.s \in UnitRoles THEN Ok([tag |-> v.s])
         ELSE IF v.s = "TargetsDelegation"
         THEN Err("invalid type: unit variant, expected newtype variant")
         ELSE Err("unknown variant " \o v.s)
    ELSE IF v.t = "obj"
    THEN IF Cardinality(DOMAIN v.o) # 1
         THEN Err("invalid value: map, expected map with a single key")
         ELSE LET k == CHOOSE x \in DOMAIN v.o : TRUE
              IN  IF k \in UnitRoles
                  THEN IF v.o[k].t = "null" THEN Ok([tag |-> k])
                       ELSE Err(InvalidType(v.o[k], "unit variant"))
                  ELSE IF k = "TargetsDelegation"
                  THEN LET n == String_deserialize(v.o[k])
                       IN  IF n.ok THEN Ok(Role_TargetsDelegation(n.v)) ELSE n
                  ELSE Err("unknown variant " \o k)
    ELSE Err(InvalidType(v, "string or map"))

\* the `roles` part of RootMetadata's deserialize, after the scalar fields
RootRoles_deserialize(object, fields) ==
    IF ~(Has(object, "roles") /\ object["roles"].t = "obj")
    THEN Err("Field 'roles' missing")
    ELSE LET roles == object["roles"].o IN
    IF ~Has(roles, "root") THEN Err("Role 'root' missing")
    ELSE LET root == MapErr(RoleDefinition_deserialize(roles["root"]),
                            "Root role definition error: ") IN
    IF ~root.ok THEN root
    ELSE IF ~Has(roles, "targets") THEN Err("Role 'targets' missing")
    ELSE LET targets == MapErr(RoleDefinition_deserialize(roles["targets"]),
                               "Targets role definition error: ") IN
    IF ~targets.ok THEN targets
    ELSE IF ~Has(roles, "timestamp") THEN Err("Role 'timestamp' missing")
    ELSE LET timestamp == MapErr(RoleDefinition_deserialize(roles["timestamp"]),
                                 "Timetamp role definition error: ") IN
    IF ~timestamp.ok THEN timestamp
    ELSE IF ~Has(roles, "snapshot") THEN Err("Role 'shapshot' missing")
    ELSE LET snapshot == MapErr(RoleDefinition_deserialize(roles["snapshot"]),
                                "Snapshot role definition error: ") IN
    IF ~snapshot.ok THEN snapshot
    ELSE Ok([consistent_snapshot |-> fields.consistent_snapshot,
             expires |-> fields.expires,
             version |-> fields.version,
             keys |-> fields.keys,
             root |-> root.v,
             targets |-> targets.v,
             timestamp |-> timestamp.v,
             snapshot |-> snapshot.v])

\* impl Deserialize for RootMetadata
RootMetadata_deserialize(v) ==
    IF v.t # "obj" THEN Err("Role was not an object")
    ELSE LET object == v.o IN
    IF ~Has(object, "_type") THEN Err("Field '_type' missing")
    ELSE LET typ == MapErr(Role_deserialize(object["_type"]),
                           "Field '_type' not a valid role: ") IN
    IF ~typ.ok THEN typ
    ELSE IF typ.v # Role_Root THEN Err("Field '_type' was not 'Root'")
    ELSE IF ~Has(object, "keys") THEN Err("Field 'keys' missing")
    ELSE LET keys == MapErr(KeyMap_deserialize(object["keys"]),
                            "Field 'keys' not a valid key map: ") IN
    IF ~keys.ok THEN keys
    ELSE IF ~Has(object, "expires") THEN Err("Field 'expires' missing")
    ELSE LET expires == MapErr(DateTime_deserialize(object["expires"]),
                               "Field 'expires' did not have a valid format: ") IN
    IF ~expires.ok THEN expires
    ELSE IF ~Has(object, "version") THEN Err("Field 'version' missing")
    ELSE LET version == MapErr(i32_deserialize(object["version"]),
                               "Field 'version' did not have a valid format: ") IN
    IF ~version.ok THEN version
    ELSE IF ~Has(object, "consistent_snapshot")
    THEN Err("Field 'consistent_snapshot' missing")
    ELSE LET consistent_snapshot ==
                MapErr(bool_deserialize(object["consistent_snapshot"]),
                       "Field 'consistent_snapshot' did not have a valid format: ") IN
    IF ~consistent_snapshot.ok THEN consistent_snapshot
    ELSE RootRoles_deserialize(object,
            [consistent_snapshot |-> consistent_snapshot.v, expires |-> expires.v,
             version |-> version.v, keys |-> keys.v])

(***************************************************************************)
(* TargetInfo, MetadataMetadata, SnapshotMetadataMetadata, Delegations.    *)
(***************************************************************************)
\* from_value::<HashMap<HashType, HashValue>>
HashMapHashes_deserialize(v) ==
    LET given == MapMembers(v)
    IN  HashMap_deserialize(v, [k \in DOMAIN given |-> HashType_deserialize(JStr(k))],
                               [k \in DOMAIN given |-> HashValue_deserialize(given[k])])

\* json::Value read as a json::Value is itself
Value_deserialize(v) == Ok(v)
\* from_value::<HashMap<String, json::Value>>
Custom_deserialize(v) ==
    LET given == MapMembers(v)
    IN  HashMap_deserialize(v, [k \in DOMAIN given |-> String_deserialize(JStr(k))],
                               [k \in DOMAIN given |-> Value_deserialize(given[k])])

\* the fields of #[derive(Deserialize)] struct TargetInfo
TargetInfo_field(f, v) ==
    CASE f = "length" -> i64_deserialize(v)
      [] f = "hashes" -> HashMapHashes_deserialize(v)
      [] f = "custom" -> Option_deserialize(v, Custom_deserialize(v))

\* #[derive(Deserialize)] for TargetInfo
TargetInfo_deserialize(v) ==
    LET fields == <<"length", "hashes", "custom">>
        given == StructMembers(v, fields)
    IN  DeriveStruct(v, "TargetInfo", fields, {"custom"},
                     [f \in DOMAIN given |-> TargetInfo_field(f, given[f])])

\* the fields of #[derive(Deserialize)] struct MetadataMetadata
MetadataMetadata_field(f, v) ==
    CASE f = "length" -> i64_deserialize(v)
      [] f = "hashes" -> HashMapHashes_deserialize(v)
      [] f = "version" -> i32_deserialize(v)

\* #[derive(Deserialize)] for MetadataMetadata
MetadataMetadata_deserialize(v) ==
    LET fields == <<"length", "hashes", "version">>
        given == StructMembers(v, fields)
    IN  DeriveStruct(v, "MetadataMetadata", fields, {},
                     [f \in DOMAIN given |-> MetadataMetadata_field(f, given[f])])

\* the fields of #[derive(Deserialize)] struct SnapshotMetadataMetadata
SnapshotMetadataMetadata_field(f, v) ==
    CASE f = "length" -> Option_deserialize(v, i64_deserialize(v))
      [] f = "hashes" -> Option_deserialize(v, HashMapHashes_deserialize(v))
      [] f = "version" -> i32_deserialize(v)

\* #[derive(Deserialize)] for SnapshotMetadataMetadata
SnapshotMetadataMetadata_deserialize(v) ==
    LET fields == <<"length", "hashes", "version">>
        given == StructMembers(v, fields)
    IN  DeriveStruct(v, "SnapshotMetadataMetadata", fields, {"length", "hashes"},
                     [f \in DOMAIN given |-> SnapshotMetadataMetadata_field(f, given[f])])

\* from_value::<Vec<DelegatedRole>>
VecDelegatedRole_deserialize(v) ==
    IF v.t = "arr"
    THEN Collect([i \in 1..Len(v.a) |-> DelegatedRole_deserialize(v.a[i])])
    ELSE Err(InvalidType(v, "a sequence"))

\* the fields of #[derive(Deserialize)] struct Delegations
Delegations_field(f, v) ==
    IF f = "keys" THEN KeyMap_deserialize(v) ELSE VecDelegatedRole_deserialize(v)

\* #[derive(Deserialize)] for Delegations
Delegations_deserialize(v) ==
    LET fields == <<"keys", "roles">>
        given == StructMembers(v, fields)
    IN  DeriveStruct(v, "Delegations", fields, {},
                     [f \in DOMAIN given |-> Delegations_field(f, given[f])])

(***************************************************************************)
(* TargetsMetadata, TimestampMetadata, SnapshotMetadata.                   *)
(***************************************************************************)
\* from_value::<HashMap<String, TargetInfo>>
TargetsMap_deserialize(v) ==
    LET given == MapMembers(v)
    IN  HashMap_deserialize(v, [k \in DOMAIN given |-> String_deserialize(JStr(k))],
                               [k \in DOMAIN given |-> TargetInfo_deserialize(given[k])])
\* from_value::<HashMap<String, MetadataMetadata>>
TimestampMeta_deserialize(v) ==
    LET given == MapMembers(v)
    IN  HashMap_deserialize(v, [k \in DOMAIN given |-> String_deserialize(JStr(k))],
                               [k \in DOMAIN given |-> MetadataMetadata_deserialize(given[k])])
\* from_value::<HashMap<String, SnapshotMetadataMetadata>>
SnapshotMeta_deserialize(v) ==
    LET given == MapMembers(v)
    IN  HashMap_deserialize(v, [k \in DOMAIN given |-> String_deserialize(JStr(k))],
                               [k \in DOMAIN given |-> SnapshotMetadataMetadata_deserialize(given[k])])

\* a parse that reads a null delegations member as no delegations
TargetsMetadata_deserialize_NullAsNone(v) ==
    IF v.t # "obj" THEN Err("Role was not an object")
    ELSE LET object == v.o
             delegations ==
                 IF Has(object, "delegations") /\ object["delegations"].t # "null"
                 THEN LET d == MapErr(Delegations_deserialize(object["delegations"]),
                                      "Bad delegations format: ")
                      IN  IF d.ok THEN Ok(Some(d.v)) ELSE d
                 ELSE Ok(None)
         IN
    IF ~delegations.ok THEN delegations
    ELSE IF ~Has(object, "expires") THEN Err("Field 'expires' missing")
    ELSE LET expires == MapErr(DateTime_deserialize(object["expires"]),
                               "Field 'expires did not have a valid format: ") IN
    IF ~expires.ok THEN expires
    ELSE IF ~Has(object, "version") THEN Err("Field 'version' missing")
    ELSE LET version == MapErr(i32_deserialize(object["version"]),
                               "Field 'version' did not have a valid format: ") IN
    IF ~version.ok THEN version
    ELSE IF ~Has(object, "targets") THEN Err("Signature missing fields")
    ELSE LET targets == MapErr(TargetsMap_deserialize(object["targets"]),
                               "Bad targets format: ") IN
    IF ~targets.ok THEN targets
    ELSE Ok([version |-> version.v, expires |-> expires.v,
             delegations |-> delegations.v, targets |-> targets.v])

\* impl Deserialize for TargetsMetadata
TargetsMetadata_deserialize(v) ==
    IF v.t # "obj" THEN Err("Role was not an object")
    ELSE LET object == v.o
             delegations ==
                 IF Has(object, "delegations")
                 THEN LET d == MapErr(Delegations_deserialize(object["delegations"]),
                                      "Bad delegations format: ")
                      IN  IF d.ok THEN Ok(Some(d.v)) ELSE d
                 ELSE Ok(None)
         IN
    IF ~delegations.ok THEN delegations
    ELSE IF ~Has(object, "expires") THEN Err("Field 'expires' missing")
    ELSE LET expires == MapErr(DateTime_deserialize(object["expires"]),
                               "Field 'expires did not have a valid format: ") IN
    IF ~expires.ok THEN expires
    ELSE IF ~Has(object, "version") THEN Err("Field 'version' missing")
    ELSE LET version == MapErr(i32_deserialize(object["version"]),
                               "Field 'version' did not have a valid format: ") IN
    IF ~version.ok THEN version
    ELSE IF ~Has(object, "targets") THEN Err("Signature missing fields")
    ELSE LET targets == MapErr(TargetsMap_deserialize(object["targets"]),
                               "Bad targets format: ") IN
    IF ~targets.ok THEN targets
    ELSE Ok([version |-> version.v, expires |-> expires.v,
             delegations |-> delegations.v, targets |-> targets.v])

\* impl Deserialize for TimestampMetadata
TimestampMetadata_deserialize(v) ==
    IF v.t # "obj" THEN Err("Role was not an object")
    ELSE LET object == v.o IN
    IF ~Has(object, "expires") THEN Err("Field 'expires' missing")
    ELSE LET expires == MapErr(DateTime_deserialize(object["expires"]),
                               "Field 'expires' did not have a valid format: ") IN
    IF ~expires.ok THEN expires
    ELSE IF ~Has(object, "version") THEN Err("Field 'version' missing")
    ELSE LET version == MapErr(i32_deserialize(object["version"]),
                               "Field 'version' did not have a valid format: ") IN
    IF ~version.ok THEN version
    ELSE IF ~Has(object, "meta") THEN Err("Signature missing fields")
    ELSE LET meta == MapErr(TimestampMeta_deserialize(object["meta"]),
                            "Bad meta-meta format: ") IN
    IF ~meta.ok THEN meta
    ELSE Ok([expires |-> expires.v, version |-> version.v, meta |-> meta.v])

\* impl Deserialize for SnapshotMetadata
SnapshotMetadata_deserialize(v) ==
    IF v.t # "obj" THEN Err("Role was not an object")
    ELSE LET object == v.o IN
    IF ~Has(object, "expires") THEN Err("Field 'expires' missing")
    ELSE LET expires == MapErr(DateTime_deserialize(object["expires"]),
                               "Field 'expires' did not have a valid format: ") IN
    IF ~expires.ok THEN expires
    ELSE IF ~Has(object, "version") THEN Err("Field 'version' missing")
    ELSE LET version == MapErr(i32_deserialize(object["version"]),
                               "Field 'version' did not have a valid format: ") IN
    IF ~version.ok THEN version
    ELSE IF ~Has(object, "meta") THEN Err("Signature missing fields")
    ELSE LET meta == MapErr(SnapshotMeta_deserialize(object["meta"]),
                            "Bad meta-meta format: ") IN
    IF ~meta.ok THEN meta
    ELSE Ok([expires |-> expires.v, version |-> version.v, meta |-> meta.v])

(***************************************************************************)
(* The explored documents.                                                 *)
(***************************************************************************)
\* a member that is left out of an object
Absent == [t |-> "absent"]
\* the object with the members of rec that are not Absent
Members(rec) == JObj([k \in {x \in DOMAIN rec : rec[x] # Absent} |-> rec[k]])
JStrings(q) == JArr([i \in 1..Len(q) |-> JStr(q[i])])

NonObjects == {JNull, JStr("x"), JArr(<<>>), JNum(1), JBool(TRUE)}

\* RoleDefinition
KeyIdStrings == {"k1", "k2"}
ValidKeyIds == {JStrings(q) : q \in SeqsUpTo(KeyIdStrings, MaxKeyIds)}
BadKeyIds == {JStr("k1"), JArr(<<JStr("k1"), JNum(1)>>), JNull}
ThresholdNumbers ==
    {JNum(n) : n \in (0 - MaxThreshold)..MaxThreshold}
    \cup {JWide("2147483648"), JWide("-2147483649")}
BadThresholds == {JStr("1"), JNull}
RoleDefinitionValues ==
    {Members([keyids |-> a, threshold |-> b, note |-> c]) :
        a \in {Absent} \cup ValidKeyIds \cup BadKeyIds,
        b \in {Absent} \cup ThresholdNumbers \cup BadThresholds,
        c \in {Absent, JStr("x")}}
    \cup NonObjects

\* Signature and SignedMetadata
SignatureJson(k, m, g) == Members([keyid |-> k, method |-> m, sig |-> g])
GoodSignatures ==
    {SignatureJson(JStr("k1"), JStr("ed25519"), JStr("00ff")),
     SignatureJson(JStr("k2"), JStr("rsassa-pss-sha256"), JStr("0a")),
     SignatureJson(JStr("k1"), JStr("gost"), JStr(""))}
BadSignatures ==
    {SignatureJson(JStr("k1"), JStr("ed25519"), Absent),
     SignatureJson(JStr("k1"), JStr("ed25519"), JStr("0g")),
     SignatureJson(JStr("k1"), JStr("ed25519"), JStr("FF")),
     SignatureJson(JStr("k1"), JStr("ed25519"), JStr("abc")),
     SignatureJson(JNum(1), JStr("ed25519"), JStr("00")),
     SignatureJson(JStr("k1"), JNull, JStr("00")),
     JStr("00ff")}
SignedValues ==
    {Absent, JNull, JStr("x"), JArr(<<>>), JObj(EmptyMap),
     Members([version |-> JNum(1), note |-> JStr("x")]),
     Members([version |-> JNum(2), note |-> JStr("x")])}
SignaturesValues ==
    {Absent, JNull, JStr("x"), JObj(EmptyMap)}
    \cup {JArr(q) : q \in SeqsUpTo(GoodSignatures \cup BadSignatures, MaxSigs)}
SignedMetadataValues ==
    {Members([signed |-> a, signatures |-> b, note |-> c]) :
        a \in SignedValues, b \in SignaturesValues, c \in {Absent, JStr("x")}}
    \cup NonObjects

\* DelegatedRole
DelegatedRoleJson(n, ks, t, term, ps, phs) ==
    Members([name |-> n, keyids |-> ks, threshold |-> t, terminating |-> term,
             paths |-> ps, path_hash_prefixes |-> phs])
DelegatedRoleValues ==
    {DelegatedRoleJson(n, ks, t, term, ps, phs) :
        n \in {Absent, JStr("r"), JNum(1)},
        ks \in {Absent, JStrings(<<"k1">>), JStr("k1")},
        t \in {Absent, JStr("1"), JWide("2147483648")}
                \cup {JNum(i) : i \in (0 - 1)..MaxThreshold},
        term \in {Absent, JBool(TRUE), JStr("yes")},
        ps \in {Absent, JStrings(<<"a/">>), JNum(1), JNull},
        phs \in {Absent, JStrings(<<"ab">>), JNull}}
    \cup NonObjects

\* Key
PemText(body) == PemBegin \o "\n" \o body \o "\n" \o PemEnd
KeyJson(t, val) == Members([keytype |-> t, keyval |-> val])
GoodKeys ==
    {KeyJson(JStr("ed25519"), JStr("07")),
     KeyJson(JStr("rsa"), Members([public |-> JStr(PemText("Bw=="))])),
     KeyJson(JStr("ecdsa"), JStr("09"))}
BadKeys ==
    {KeyJson(JStr("ed25519"), JStr("0x")),
     KeyJson(JStr("rsa"), JStr("-----BEGIN")),
     KeyJson(Absent, JStr("07")),
     JNull}
KeyMaps ==
    {Members([k1 |-> a, k2 |-> b]) :
        a \in {Absent} \cup GoodKeys, b \in {Absent} \cup GoodKeys \cup BadKeys}
    \cup {JNull}

\* Delegations
GoodDelegatedRoles ==
    {DelegatedRoleJson(JStr("r"), JStrings(<<"k1">>), JNum(i), JBool(FALSE),
                       JStrings(<<"a/">>), Absent) : i \in (0 - 1)..MaxThreshold}
BadDelegatedRoles ==
    {DelegatedRoleJson(JStr("r"), JStrings(<<"k1">>), JNum(1), JBool(FALSE),
                       Absent, JStrings(<<"ab">>)),
     DelegatedRoleJson(Absent, JStrings(<<"k1">>), JNum(1), JBool(FALSE),
                       JStrings(<<"a/">>), Absent)}
DelegationsValues ==
    {Members([keys |-> k, roles |-> r]) :
        k \in {Absent, Members([k1 |-> KeyJson(JStr("ed25519"), JStr("07"))]), JNull},
        r \in {Absent, JNull}
              \cup {JArr(q) : q \in SeqsUpTo(GoodDelegatedRoles \cup BadDelegatedRoles,
                                             MaxRoles)}}
    \cup {JNull, JObj(EmptyMap), JArr(<<>>)}

\* the scalar members of the four documents
ExpiresValues == {Absent, JStr("2030-01-01T00:00:00Z"), JStr("tomorrow"), JNum(1)}
VersionValues == {Absent, JNum(1), JNum(0), JStr("1"), JWide("2147483648")}

\* TargetsMetadata
HashesJson == Members([sha256 |-> JStr("0a"), md5 |-> JStr("ff")])
TargetInfoValues ==
    {Members([length |-> JNum(3), hashes |-> HashesJson]),
     Members([length |-> JNum(3), hashes |-> HashesJson,
              custom |-> Members([note |-> JNum(1)])]),
     Members([length |-> JNum(3), hashes |-> HashesJson, custom |-> JNull]),
     Members([length |-> JNum(3)]),
     Members([length |-> JNum(3), hashes |-> Members([sha256 |-> JStr("0g")])]),
     JNull}
TargetsValues ==
    {Absent, JNull, JObj(EmptyMap)}
    \cup {Members([bin |-> a]) : a \in TargetInfoValues}
TargetsMetadataValues ==
    {Members([delegations |-> d, expires |-> e, version |-> n, targets |-> t]) :
        d \in {Absent} \cup DelegationsValues,
        e \in ExpiresValues, n \in {Absent, JNum(1), JStr("1")},
        t \in {Absent, JNull, Members([bin |-> Members([length |-> JNum(3),
                                                        hashes |-> HashesJson])])}}
    \cup
    {Members([expires |-> e, version |-> n, targets |-> t]) :
        e \in ExpiresValues, n \in VersionValues, t \in TargetsValues}
    \cup NonObjects

\* TimestampMetadata and SnapshotMetadata
MetaEntryValues ==
    {Members([length |-> l, hashes |-> h, version |-> n]) :
        l \in {Absent, JNum(3), JNull, JStr("3")},
        h \in {Absent, HashesJson, JNull},
        n \in {Absent, JNum(1), JStr("1")}}
    \cup {JNull}
MetaValues ==
    {Absent, JNull, JObj(EmptyMap)}
    \cup {JObj(With(EmptyMap, "root.json", a)) : a \in MetaEntryValues}
MetaDocumentValues ==
    {Members([expires |-> e, version |-> n, meta |-> m]) :
        e \in ExpiresValues, n \in VersionValues, m \in MetaValues}
    \cup NonObjects

\* RootMetadata
RoleDefinitionJson(t) == Members([keyids |-> JStrings(<<"k1">>), threshold |-> t])
RootRoleValues ==
    {Absent, JNull} \cup {RoleDefinitionJson(JNum(i)) : i \in (0 - 1)..MaxThreshold}
GoodRoles ==
    Members([root |-> RoleDefinitionJson(JNum(1)),
             targets |-> RoleDefinitionJson(JNum(1)),
             timestamp |-> RoleDefinitionJson(JNum(1)),
             snapshot |-> RoleDefinitionJson(JNum(1))])
GoodKeyMap == Members([k1 |-> KeyJson(JStr("ed25519"), JStr("07"))])
RootJson(ty, k, e, n, c, r) ==
    JObj(LET m == Members([keys |-> k, expires |-> e, version |-> n,
                           consistent_snapshot |-> c, roles |-> r]).o
         IN  IF ty = Absent THEN m ELSE With(m, "_type", ty))
TypeValues ==
    {Absent, JStr("Root"), JStr("Targets"), JStr("root"), JStr("TargetsDelegation"),
     JNum(1), Members([Root |-> JNull]),
     Members([TargetsDelegation |-> JStr("r")])}
RootMetadataValues ==
    {RootJson(JStr("Root"), GoodKeyMap, JStr("2030-01-01T00:00:00Z"), JNum(1),
              JBool(FALSE),
              Members([root |-> a, targets |-> b, timestamp |-> c, snapshot |-> d])) :
        a \in RootRoleValues, b \in RootRoleValues,
        c \in RootRoleValues, d \in RootRoleValues}
    \cup
    {RootJson(ty, k, e, n, c, r) :
        ty \in TypeValues,
        k \in {Absent, GoodKeyMap, JNull},
        e \in ExpiresValues, n \in VersionValues,
        c \in {Absent, JBool(TRUE), JStr("no")},
        r \in {Absent, JNull, GoodRoles}}
    \cup
    {RootJson(JStr("Root"), k, JStr("2030-01-01T00:00:00Z"), JNum(1), JBool(FALSE),
              GoodRoles) : k \in KeyMaps}
    \cup NonObjects

\* Key documents, and KeyValues built field by field
KeyValStrings ==
    {"07", "09", PemText("Bw=="), PemText("Bw==\n"), PemText("CQ==")}
KeyValJson ==
    {JStr(x) : x \in KeyValStrings}
    \cup {Members([public |-> JStr(x)]) : x \in KeyValStrings}
    \cup {JStr("0x"), JStr("-----BEGIN"), JObj(EmptyMap), JNull,
          Members([public |-> JNum(1)])}
KeyDocumentValues ==
    {KeyJson(t, val) :
        t \in {JStr("ed25519"), JStr("rsa"), JStr("ecdsa"), Absent, JNum(1)},
        val \in {Absent} \cup KeyValJson}
    \cup {JNull}
KeyIdInputs ==
    {[kind |-> "key_id", kv |-> [value |-> b, original |-> o, typ |-> t]] :
        b \in KeyBytes, o \in KeyValStrings, t \in KeyTypes}
\* the keys that parsing produces, as arguments of Key::verify
ParsedKeys ==
    {Key_deserialize(d).v : d \in {x \in KeyDocumentValues : Key_deserialize(x).ok}}
ParsedVerifyInputs ==
    {[kind |-> "verify", key |-> k, scheme |-> s, msg |-> m, sig |-> g] :
        k \in ParsedKeys, s \in Schemes, m \in Messages, g \in SignatureValues}

\* algorithm names
AlgorithmNames ==
    {"ed25519", "rsa", "rsassa-pss-sha256", "rsassa-pss-sha512", "sha256",
     "sha512", "", "ED25519", "Rsa", "SHA256", "ecdsa", "md5", "rsa "}
AlgorithmNameValues == {JStr(n) : n \in AlgorithmNames} \cup {JNull, JNum(1)}

Call(kind, S) == {[kind |-> kind, v |-> x] : x \in S}

(***************************************************************************)
(* The state machine.                                                      *)
(***************************************************************************)
Init ==
    /\ op = "none"
    /\ result = NoResult
    /\ prim = <<>>
    /\ \/ input \in VerifyInputs
       \/ input \in TargetInputs
       \/ input \in Call("SignedMetadata", SignedMetadataValues)
       \/ input \in Call("RootMetadata", RootMetadataValues)
       \/ input \in Call("RoleDefinition", RoleDefinitionValues)
       \/ input \in Call("TargetsMetadata", TargetsMetadataValues)
       \/ input \in Call("TimestampMetadata", MetaDocumentValues)
       \/ input \in Call("SnapshotMetadata", MetaDocumentValues)
       \/ input \in Call("Delegations", DelegationsValues)
       \/ input \in Call("DelegatedRole", DelegatedRoleValues)
       \/ input \in ParsedVerifyInputs
       \/ input \in KeyIdInputs
       \/ input \in Call("Key", KeyDocumentValues)
       \/ input \in Call("KeyType", AlgorithmNameValues)
       \/ input \in Call("SignatureScheme", AlgorithmNameValues)
       \/ input \in Call("HashType", AlgorithmNameValues)

\* a caller verifies a signature with a key
Verify ==
    /\ op = "none"
    /\ input.kind = "verify"
    /\ LET r == Key_verify(input.key, input.scheme, input.msg, input.sig)
       IN  /\ result' = r.res
           /\ prim' = r.calls
    /\ op' = "verify"
    /\ UNCHANGED input

\* a caller asks whether a delegated role may speak for a target
CouldHaveTarget ==
    /\ op = "none"
    /\ input.kind = "could_have_target"
    /\ result' = Ok(could_have_target(input.role, input.target))
    /\ op' = "could_have_target"
    /\ UNCHANGED <<input, prim>>

\* a caller parses the envelope of a document
ParseSignedMetadata ==
    /\ op = "none"
    /\ input.kind = "SignedMetadata"
    /\ result' = SignedMetadata_deserialize(input.v)
    /\ op' = "SignedMetadata"
    /\ UNCHANGED <<input, prim>>

\* a caller parses the payload of a root document
ParseRootMetadata ==
    /\ op = "none"
    /\ input.kind = "RootMetadata"
    /\ result' = RootMetadata_deserialize(input.v)
    /\ op' = "RootMetadata"
    /\ UNCHANGED <<input, prim>>

\* a caller parses one role definition
ParseRoleDefinition ==
    /\ op = "none"
    /\ input.kind = "RoleDefinition"
    /\ result' = RoleDefinition_deserialize(input.v)
    /\ op' = "RoleDefinition"
    /\ UNCHANGED <<input, prim>>

\* a caller parses the payload of a targets document
ParseTargetsMetadata ==
    /\ op = "none"
    /\ input.kind = "TargetsMetadata"
    /\ result' = TargetsMetadata_deserialize(input.v)
    /\ op' = "TargetsMetadata"
    /\ UNCHANGED <<input, prim>>

\* a caller parses the payload of a timestamp document
ParseTimestampMetadata ==
    /\ op = "none"
    /\ input.kind = "TimestampMetadata"
    /\ result' = TimestampMetadata_deserialize(input.v)
    /\ op' = "TimestampMetadata"
    /\ UNCHANGED <<input, prim>>

\* a caller parses the payload of a snapshot document
ParseSnapshotMetadata ==
    /\ op = "none"
    /\ input.kind = "SnapshotMetadata"
    /\ result' = SnapshotMetadata_deserialize(input.v)
    /\ op' = "SnapshotMetadata"
    /\ UNCHANGED <<input, prim>>

\* a caller parses the delegations of a targets document
ParseDelegations ==
    /\ op = "none"
    /\ input.kind = "Delegations"
    /\ result' = Delegations_deserialize(input.v)
    /\ op' = "Delegations"
    /\ UNCHANGED <<input, prim>>

\* a caller parses one delegated role entry
ParseDelegatedRole ==
    /\ op = "none"
    /\ input.kind = "DelegatedRole"
    /\ result' = DelegatedRole_deserialize(input.v)
    /\ op' = "DelegatedRole"
    /\ UNCHANGED <<input, prim>>

\* a caller derives the id of a KeyValue
KeyId ==
    /\ op = "none"
    /\ input.kind = "key_id"
    /\ result' = Ok(key_id(input.kv))
    /\ op' = "key_id"
    /\ UNCHANGED <<input, prim>>

\* a caller parses one key
ParseKey ==
    /\ op = "none"
    /\ input.kind = "Key"
    /\ result' = Key_deserialize(input.v)
    /\ op' = "Key"
    /\ UNCHANGED <<input, prim>>

\* a caller derives the id of the key it parsed
ParsedKeyId ==
    /\ op = "Key"
    /\ result.ok
    /\ result' = Ok([key |-> result.v, key_id |-> key_id(result.v.value)])
    /\ op' = "Key.key_id"
    /\ UNCHANGED <<input, prim>>

\* a caller parses the name of a key type
ParseKeyType ==
    /\ op = "none"
    /\ input.kind = "KeyType"
    /\ result' = KeyType_deserialize(input.v)
    /\ op' = "KeyType"
    /\ UNCHANGED <<input, prim>>

\* a caller parses the name of a signature scheme
ParseSignatureScheme ==
    /\ op = "none"
    /\ input.kind = "SignatureScheme"
    /\ result' = SignatureScheme_deserialize(input.v)
    /\ op' = "SignatureScheme"
    /\ UNCHANGED <<input, prim>>

\* a caller parses the name of a hash algorithm
ParseHashType ==
    /\ op = "none"
    /\ input.kind = "HashType"
    /\ result' = HashType_deserialize(input.v)
    /\ op' = "HashType"
    /\ UNCHANGED <<input, prim>>

Next ==
    \/ Verify
    \/ CouldHaveTarget
    \/ ParseSignedMetadata
    \/ ParseRootMetadata
    \/ ParseRoleDefinition
    \/ ParseTargetsMetadata
    \/ ParseTimestampMetadata
    \/ ParseSnapshotMetadata
    \/ ParseDelegations
    \/ ParseDelegatedRole
    \/ KeyId
    \/ ParseKey
    \/ ParsedKeyId
    \/ ParseKeyType
    \/ ParseSignatureScheme
    \/ ParseHashType

Spec == Init /\ [][Next]_vars

(***************************************************************************)
(* Claims.                                                                 *)
(***************************************************************************)
SupportedPairs ==
    {<<KeyType_Ed25519, Scheme_Ed25519>>,
     <<KeyType_Rsa, Scheme_RsaSsaPssSha256>>,
     <<KeyType_Rsa, Scheme_RsaSsaPssSha512>>}

\* C1: Key.verify succeeds only for the pairs (Ed25519, Ed25519),
\* (Rsa, RsaSsaPssSha256), (Rsa, RsaSsaPssSha512) and only if ring accepted
\* the signature over the message; for every other pair it returns an error
\* and ring is never called.
C1_VerifyOnlySupportedPairs ==
    op = "verify" =>
        LET pair == <<input.key.typ, input.scheme>> IN
        /\ result.ok =>
            /\ pair \in SupportedPairs
            /\ Len(prim) = 1
            /\ prim[1].alg = Alg(input.scheme)
            /\ prim[1].msg = input.msg
            /\ prim[1].sig = input.sig
            /\ RingVerify(prim[1].alg, prim[1].key, prim[1].msg, prim[1].sig)
        /\ pair \notin SupportedPairs => (~result.ok /\ prim = <<>>)

\* a verification that succeeded, ring having been called once
C1_Witness ==
    /\ op = "verify"
    /\ result.ok
    /\ Len(prim) = 1
    /\ input.key.typ = KeyType_Rsa

\* p is a literal prefix of t: t is p followed by the rest of t
IsPrefixOf(p, t) ==
    /\ Len(p) <= Len(t)
    /\ t = p \o SubSeq(t, Len(p) + 1, Len(t))
LastChar(p) == SubSeq(p, Len(p), Len(p))
Claims(p, t) == p = t \/ (Len(p) > 0 /\ LastChar(p) = "/" /\ IsPrefixOf(p, t))

\* C2: could_have_target(target) is true iff some pattern of the role equals
\* the target, or ends with "/" and is a prefix of the target; and it answers
\* the five vectors of the test as the test expects.
C2_CouldHaveTargetIffPatternClaims ==
    op = "could_have_target" =>
        /\ result.v = (\E i \in 1..Len(input.role.paths) :
                            Claims(input.role.paths[i], input.target))
        /\ \A v \in TestVectors :
              (input.role.paths = <<v[1]>> /\ input.target = v[2])
                  => result.v = v[3]

\* a target claimed by the second pattern through the prefix rule only
C2_Witness ==
    /\ op = "could_have_target"
    /\ Len(input.role.paths) = 2
    /\ ~Claims(input.role.paths[1], input.target)
    /\ input.role.paths[2] # input.target
    /\ result.v = TRUE

\* C5: Key.verify on a key of type Unsupported(name) fails with
\* UnsupportedKeyType(name), whatever the scheme.
C5_UnsupportedKeyTypeError ==
    (op = "verify" /\ input.key.typ.tag = "Unsupported")
        => result = Err(UnsupportedKeyType(input.key.typ.name))

\* C6: Key.verify of a supported key type with a scheme Unsupported(name)
\* fails with UnsupportedSignatureScheme(name).
C6_UnsupportedSchemeError ==
    (op = "verify" /\ input.scheme.tag = "Unsupported"
                   /\ input.key.typ.tag \in {"Ed25519", "Rsa"})
        => result = Err(UnsupportedSignatureScheme(input.scheme.name))

\* the roles of a successfully parsed Delegations all have threshold >= 1
RolesThresholdsPositive(delegations) ==
    \A i \in 1..Len(delegations["roles"]) : delegations["roles"][i].threshold >= 1

\* C3: no successfully parsed DelegatedRole, and hence no successfully
\* parsed Delegations or TargetsMetadata, carries a threshold <= 0.
C3_DelegatedThresholdValidated ==
    /\ (op = "DelegatedRole" /\ result.ok) => result.v.threshold >= 1
    /\ (op = "Delegations" /\ result.ok) => RolesThresholdsPositive(result.v)
    /\ (op = "TargetsMetadata" /\ result.ok /\ result.v.delegations # None)
            => RolesThresholdsPositive(result.v.delegations.some)

IsStringArray(v) == v.t = "arr" /\ \A i \in 1..Len(v.a) : v.a[i].t = "str"
\* a JSON number that is less than one
IsBelowOne(v) ==
    /\ v.t = "num"
    /\ IF IsWide(v) THEN CharAt(v.wide, 1) = "-" ELSE v.n < 1
RootRoleNames == {"root", "targets", "timestamp", "snapshot"}

\* C4: a RoleDefinition object with valid keyids is rejected for every
\* threshold below one and accepted for threshold 1 with one or more key
\* ids; every RoleDefinition of a parsed RootMetadata has threshold >= 1.
C4_RoleDefinitionThreshold ==
    /\ (/\ op = "RoleDefinition"
        /\ input.v.t = "obj"
        /\ Has(input.v.o, "keyids") /\ IsStringArray(input.v.o["keyids"])
        /\ Has(input.v.o, "threshold"))
        => LET t == input.v.o["threshold"]
               ks == input.v.o["keyids"].a
           IN  /\ IsBelowOne(t) => ~result.ok
               /\ (t = JNum(1) /\ Len(ks) >= 1) =>
                    /\ result.ok
                    /\ result.v.threshold = 1
                    /\ result.v.key_ids = [i \in 1..Len(ks) |-> ks[i].s]
    /\ (op = "RootMetadata" /\ result.ok)
        => \A r \in RootRoleNames : result.v[r].threshold >= 1

\* a threshold of zero rejected although the key ids are valid
C4_Witness ==
    /\ op = "RoleDefinition"
    /\ input.v = Members([keyids |-> JStrings(<<"k1", "k2">>), threshold |-> JNum(0)])
    /\ result = Err("'threshold' must be >= 1")

\* the input is an object with an object "signed" and an array "signatures"
HasBothSections(v) ==
    /\ v.t = "obj"
    /\ "signed" \in DOMAIN v.o /\ v.o["signed"].t = "obj"
    /\ "signatures" \in DOMAIN v.o /\ v.o["signatures"].t = "arr"

\* C7: a SignedMetadata parse succeeds only on an object with an object
\* "signed" and an array "signatures"; without either it is an error, and
\* no envelope is produced from a default payload or an empty signature list.
C7_EnvelopeNeedsBothSections ==
    op = "SignedMetadata" =>
        /\ result.ok => HasBothSections(input.v)
        /\ ~HasBothSections(input.v) => ~result.ok

\* "signed" is missing, "signatures" is a valid array: an error
C7_Witness ==
    /\ op = "SignedMetadata"
    /\ input.v.t = "obj"
    /\ ~Has(input.v.o, "signed")
    /\ Has(input.v.o, "signatures")
    /\ VecSignature_deserialize(input.v.o["signatures"]).ok
    /\ ~result.ok

\* the name a SignatureScheme was parsed from
SchemeName(m) ==
    CASE m.tag = "Ed25519" -> "ed25519"
      [] m.tag = "RsaSsaPssSha256" -> "rsassa-pss-sha256"
      [] m.tag = "RsaSsaPssSha512" -> "rsassa-pss-sha512"
      [] m.tag = "Unsupported" -> m.name
\* lowercase hex of a byte string
RECURSIVE HexEncode(_)
HexEncode(bytes) ==
    IF Len(bytes) = 0 THEN ""
    ELSE CharAt(HexDigits, (bytes[1] \div 16) + 1)
         \o CharAt(HexDigits, (bytes[1] % 16) + 1)
         \o HexEncode(Tail(bytes))

\* C8: a parsed envelope stores the input's "signed" member as it is and the
\* input's signatures in the same order and number.
C8_EnvelopeKeepsSignedAndOrder ==
    (op = "SignedMetadata" /\ result.ok) =>
        LET given == input.v.o["signatures"].a
            stored == result.v.signatures
        IN  /\ result.v.signed = input.v.o["signed"]
            /\ Len(stored) = Len(given)
            /\ \A i \in 1..Len(given) :
                  /\ stored[i].key_id = given[i].o["keyid"].s
                  /\ SchemeName(stored[i].method) = given[i].o["method"].s
                  /\ HexEncode(stored[i].sig) = given[i].o["sig"].s

\* an envelope with two different signatures and a payload with members
C8_Witness ==
    /\ op = "SignedMetadata"
    /\ result.ok
    /\ Len(result.v.signatures) = 2
    /\ result.v.signatures[1] # result.v.signatures[2]
    /\ DOMAIN result.v.signed.o # {}

MutuallyExclusiveError == "Fields 'paths' or 'pash_hash_prefixes' are mutually exclusive"
NotSupportedError == "'pash_hash_prefixes' is not yet supported"

\* C9: a delegated role entry with both paths and path_hash_prefixes, and
\* one with path_hash_prefixes only, are rejected with two different errors,
\* which no entry without path_hash_prefixes gets; whatever other members
\* the entry has.
C9_PathHashPrefixesRejected ==
    (op = "DelegatedRole" /\ input.v.t = "obj") =>
        LET paths == "paths" \in DOMAIN input.v.o
            prefixes == "path_hash_prefixes" \in DOMAIN input.v.o
        IN  /\ (paths /\ prefixes) => result = Err(MutuallyExclusiveError)
            /\ (~paths /\ prefixes) => result = Err(NotSupportedError)
            /\ (~prefixes /\ ~result.ok) =>
                    result.e \notin {MutuallyExclusiveError, NotSupportedError}
            /\ MutuallyExclusiveError # NotSupportedError

\* both members present, the name missing
C9_Witness ==
    /\ op = "DelegatedRole"
    /\ input.v.t = "obj"
    /\ DOMAIN input.v.o = {"keyids", "threshold", "terminating", "paths",
                           "path_hash_prefixes"}
    /\ result = Err(MutuallyExclusiveError)

\* sub occurs in s
Contains(s, sub) ==
    \E i \in 1..(Len(s) - Len(sub) + 1) : SubSeq(s, i, i + Len(sub) - 1) = sub

\* a well-formed document of each kind and its required members
GoodDelegatedRole ==
    DelegatedRoleJson(JStr("r"), JStrings(<<"k1">>), JNum(1), JBool(TRUE),
                      JStrings(<<"a/">>), Absent)
GoodMetaDocument ==
    Members([expires |-> JStr("2030-01-01T00:00:00Z"), version |-> JNum(1),
             meta |-> JObj(EmptyMap)])
GoodTargetsDocument ==
    Members([expires |-> JStr("2030-01-01T00:00:00Z"), version |-> JNum(1),
             targets |-> JObj(EmptyMap)])
GoodRootDocument ==
    RootJson(JStr("Root"), GoodKeyMap, JStr("2030-01-01T00:00:00Z"), JNum(1),
             JBool(TRUE), GoodRoles)
Documents ==
    {[kind |-> "DelegatedRole", good |-> GoodDelegatedRole,
      required |-> {"name", "keyids", "threshold", "terminating", "paths"}],
     [kind |-> "TargetsMetadata", good |-> GoodTargetsDocument,
      required |-> {"expires", "version", "targets"}],
     [kind |-> "TimestampMetadata", good |-> GoodMetaDocument,
      required |-> {"expires", "version", "meta"}],
     [kind |-> "SnapshotMetadata", good |-> GoodMetaDocument,
      required |-> {"expires", "version", "meta"}],
     [kind |-> "RootMetadata", good |-> GoodRootDocument,
      required |-> {"_type", "keys", "expires", "version", "consistent_snapshot",
                    "roles"}]}
Deserialize(kind, v) ==
    CASE kind = "DelegatedRole" -> DelegatedRole_deserialize(v)
      [] kind = "TargetsMetadata" -> TargetsMetadata_deserialize(v)
      [] kind = "TimestampMetadata" -> TimestampMetadata_deserialize(v)
      [] kind = "SnapshotMetadata" -> SnapshotMetadata_deserialize(v)
      [] kind = "RootMetadata" -> RootMetadata_deserialize(v)
\* the good document with one required member left out, or set to null
Spoiled(d, f) == {JObj(Without(d.good.o, f)), JObj(With(d.good.o, f, JNull))}

\* C10: a document whose one required member is missing or malformed is
\* rejected with an error that names that member and that no other missing
\* or malformed member of the same document gets.
C10_FieldNamedDistinctErrors ==
    \A d \in Documents : \A f \in d.required :
        (op = d.kind /\ input.v \in Spoiled(d, f)) =>
            /\ ~result.ok
            /\ Contains(result.e, f)
            /\ \A g \in d.required \ {f} : \A w \in Spoiled(d, g) :
                    Deserialize(d.kind, w) # result

(***************************************************************************)
(* Key ids.                                                                *)
(***************************************************************************)
\* C11: a key parsed from a document whose keytype is an unrecognized name
\* has the fixed sentinel as the id that key_id() derives from its value,
\* never a computed hash.
C11_UnsupportedKeyTypeSentinel ==
    (op = "Key.key_id" /\ result.v.key.typ.tag = "Unsupported")
        => result.v.key_id = "error"

\* the key string of a key document, bare or under "public"
GivenKeyString(v) ==
    LET keyval == v.o["keyval"]
    IN  IF keyval.t = "str" THEN keyval.s ELSE keyval.o["public"].s
IsSupportedType(typ) == typ.tag # "Unsupported"
KeyValueUniverse ==
    {i.kv : i \in KeyIdInputs} \cup {k.value : k \in ParsedKeys}

\* C12: the id of a KeyValue of supported type is decided by its original
\* string alone: any other KeyValue of supported type has the same id exactly
\* when it has the same original string, whatever its decoded bytes and its
\* type and whether the string was given bare or under "public"; strings that
\* differ only in white space give different ids.
C12_KeyIdDependsOnOriginalOnly ==
    /\ (op = "key_id" /\ IsSupportedType(input.kv.typ)) =>
            \A kv2 \in KeyValueUniverse :
                IsSupportedType(kv2.typ) =>
                    ((kv2.original = input.kv.original) <=> (key_id(kv2) = result.v))
    /\ op = "Key.key_id" =>
            /\ result.v.key.value.original = GivenKeyString(input.v)
            /\ \A kv2 \in KeyValueUniverse :
                    IsSupportedType(kv2.typ) =>
                        ((kv2.original = GivenKeyString(input.v))
                            <=> (key_id(kv2) = result.v.key_id))

\* a PEM key given under "public" whose string differs from another key's
\* string in white space only, and whose id has been derived
C12_Witness ==
    /\ op = "Key.key_id"
    /\ input.v.o["keyval"].t = "obj"
    /\ result.v.key.value.original = PemText("Bw==\n")
    /\ \E kv2 \in KeyValueUniverse :
            /\ kv2.original = PemText("Bw==")
            /\ kv2.value = result.v.key.value.value
            /\ key_id(kv2) # result.v.key_id
    /\ \E kv2 \in KeyValueUniverse :
            /\ kv2.original = result.v.key.value.original
            /\ kv2.value # result.v.key.value.value
            /\ key_id(kv2) = result.v.key_id

(***************************************************************************)
(* The outer key type and the inferred one.                                *)
(***************************************************************************)
\* the keys that differ from key in the type inferred from the encoding
\* only: same keytype, same decoded bytes
Twins(key) ==
    {k2 \in Keys \cup ParsedKeys :
        /\ k2.typ = key.typ
        /\ k2.value.value = key.value.value
        /\ k2.value.typ # key.value.typ}
InferredType(s) == IF starts_with(s, "-----") THEN KeyType_Rsa ELSE KeyType_Ed25519
ParsingInfersFromEncoding ==
    (op = "Key" /\ result.ok) =>
        result.v.value.typ = InferredType(GivenKeyString(input.v))

\* C13 as stated: two keys with the same keytype and the same decoded bytes
\* but different inferred KeyValue types get the same result from verify for
\* every scheme, message and signature; parsing infers the KeyValue type from
\* the encoding whatever the keytype.
C13_VerifySameResultForTwins ==
    /\ op = "verify" =>
            \A k2 \in Twins(input.key) :
                Key_verify(k2, input.scheme, input.msg, input.sig).res = result
    /\ ParsingInfersFromEncoding

\* two results that are equal but for the text of the key that the mismatch
\* error prints
SameButKeyText(r1, r2) ==
    IF ~r1.ok /\ ~r2.ok /\ r1.e.kind = "Generic" /\ r2.e.kind = "Generic"
    THEN r1.e.msg = r2.e.msg /\ r1.e.scheme = r2.e.scheme
    ELSE r1 = r2

\* C13 amended: two such keys get the same outcome from verify (success in
\* the same cases, otherwise the same error but for the text of the key
\* printed in the mismatch message) and hand the same bytes to the
\* verification primitive; parsing infers the KeyValue type from the encoding
\* whatever the keytype.
C13_VerifySameOutcomeForTwins ==
    /\ op = "verify" =>
            \A k2 \in Twins(input.key) :
                LET r2 == Key_verify(k2, input.scheme, input.msg, input.sig)
                IN  SameButKeyText(r2.res, result) /\ r2.calls = prim
    /\ ParsingInfersFromEncoding

\* an rsa key given as hex, so inferred Ed25519, accepted a signature, and a
\* key with the same bytes was parsed from PEM
C13_Witness ==
    /\ op = "verify"
    /\ input.key \in ParsedKeys
    /\ input.key.typ = KeyType_Rsa
    /\ input.key.value.typ = KeyType_Ed25519
    /\ result = Ok("unit")
    /\ \E k2 \in Twins(input.key) :
            k2 \in ParsedKeys /\ starts_with(k2.value.original, "-----")

(***************************************************************************)
(* Algorithm names.                                                        *)
(***************************************************************************)
ExpectedKeyType(s) ==
    IF s = "ed25519" THEN KeyType_Ed25519
    ELSE IF s = "rsa" THEN KeyType_Rsa
    ELSE KeyType_Unsupported(s)
ExpectedScheme(s) ==
    IF s = "ed25519" THEN Scheme_Ed25519
    ELSE IF s = "rsassa-pss-sha256" THEN Scheme_RsaSsaPssSha256
    ELSE IF s = "rsassa-pss-sha512" THEN Scheme_RsaSsaPssSha512
    ELSE Scheme_Unsupported(s)
ExpectedHashType(s) ==
    IF s = "sha256" THEN HashType_Sha256
    ELSE IF s = "sha512" THEN HashType_Sha512
    ELSE HashType_Unsupported(s)

\* lowercase hex of even length
IsLowerHex(s) == Len(s) % 2 = 0 /\ \A i \in 1..Len(s) : IsHexDigit(CharAt(s, i))
\* a signature entry that is well formed whatever the name of its method
IsWellFormedSignature(v) ==
    /\ v.t = "obj"
    /\ {"keyid", "method", "sig"} \subseteq DOMAIN v.o
    /\ v.o["keyid"].t = "str"
    /\ v.o["method"].t = "str"
    /\ v.o["sig"].t = "str" /\ IsLowerHex(v.o["sig"].s)
\* a key document that is well formed whatever the name of its key type
IsWellFormedKey(v) ==
    /\ v.t = "obj"
    /\ {"keytype", "keyval"} \subseteq DOMAIN v.o
    /\ v.o["keytype"].t = "str"
    /\ KeyValue_deserialize(v.o["keyval"]).ok
\* targets documents whose one target has a sha256 and an md5 hash
DocumentsWithUnknownHash ==
    {Members([expires |-> JStr("2030-01-01T00:00:00Z"), version |-> JNum(1),
              targets |-> Members([bin |-> t])]) :
        t \in {x \in TargetInfoValues :
                  x.t = "obj" /\ Has(x.o, "hashes") /\ x.o["hashes"] = HashesJson}}

\* C14: every string parses as a KeyType, a SignatureScheme and a HashType,
\* to the known variant for a recognized lowercase name and to Unsupported
\* with the name kept otherwise; a key, a signature or a hash entry with an
\* unknown algorithm name does not make the enclosing document fail.
C14_UnknownNamesPreserved ==
    /\ (op = "KeyType" /\ input.v.t = "str")
            => result = Ok(ExpectedKeyType(input.v.s))
    /\ (op = "SignatureScheme" /\ input.v.t = "str")
            => result = Ok(ExpectedScheme(input.v.s))
    /\ (op = "HashType" /\ input.v.t = "str")
            => result = Ok(ExpectedHashType(input.v.s))
    /\ (op = "Key" /\ IsWellFormedKey(input.v)) =>
            /\ result.ok
            /\ result.v.typ = ExpectedKeyType(input.v.o["keytype"].s)
    /\ (/\ op = "SignedMetadata"
        /\ HasBothSections(input.v)
        /\ \A i \in 1..Len(input.v.o["signatures"].a) :
                IsWellFormedSignature(input.v.o["signatures"].a[i])) =>
            /\ result.ok
            /\ \A i \in 1..Len(input.v.o["signatures"].a) :
                    result.v.signatures[i].method =
                        ExpectedScheme(input.v.o["signatures"].a[i].o["method"].s)
    /\ (op = "TargetsMetadata" /\ input.v \in DocumentsWithUnknownHash) =>
            /\ result.ok
            /\ DOMAIN result.v.targets["bin"]["hashes"] =
                    {HashType_Sha256, HashType_Unsupported("md5")}

\* a targets document with an md5 hash entry has been parsed, and the entry
\* is kept under its name
C14_Witness ==
    /\ op = "TargetsMetadata"
    /\ input.v \in DocumentsWithUnknownHash
    /\ result.ok
    /\ HashType_Unsupported("md5") \in DOMAIN result.v.targets["bin"]["hashes"]

(***************************************************************************)
(* The delegations member of a targets document.                           *)
(***************************************************************************)
\* a targets document whose members other than delegations are all valid
IsValidButForDelegations(v) ==
    /\ v.t = "obj"
    /\ {"expires", "version", "targets"} \subseteq DOMAIN v.o
    /\ DateTime_deserialize(v.o["expires"]).ok
    /\ i32_deserialize(v.o["version"]).ok
    /\ TargetsMap_deserialize(v.o["targets"]).ok
\* a delegations value with a role entry that does not parse
HasFailingRole(d) ==
    /\ d.t = "obj" /\ Has(d.o, "roles") /\ d.o["roles"].t = "arr"
    /\ \E i \in 1..Len(d.o["roles"].a) :
            ~DelegatedRole_deserialize(d.o["roles"].a[i]).ok
IsMalformedDelegations(d) ==
    \/ d = JNull
    \/ d = JObj(EmptyMap)
    \/ HasFailingRole(d)
    \/ ~Delegations_deserialize(d).ok

\* C15: a targets document without a delegations member parses, when its
\* other members are valid, to a TargetsMetadata with no delegations; one
\* whose delegations member is present but is null, an empty object, has a
\* role entry that fails to parse or is otherwise not a valid Delegations
\* value is an error.
C15_DelegationsAbsentOrValid ==
    (op = "TargetsMetadata" /\ input.v.t = "obj") =>
        /\ (~Has(input.v.o, "delegations") /\ IsValidButForDelegations(input.v)) =>
                result.ok /\ result.v.delegations = None
        /\ (Has(input.v.o, "delegations")
                /\ IsMalformedDelegations(input.v.o["delegations"])) => ~result.ok
        /\ (result.ok /\ result.v.delegations = None) =>
                ~Has(input.v.o, "delegations")

\* a targets document that is valid but for a null delegations member has
\* been refused
C15_Witness ==
    /\ op = "TargetsMetadata"
    /\ IsValidButForDelegations(input.v)
    /\ Has(input.v.o, "delegations")
    /\ input.v.o["delegations"] = JNull
    /\ ~result.ok

(***************************************************************************)
(* The re-encoding of the key.                                             *)
(***************************************************************************)
\* C16: verify re-encodes the key bytes to PKCS#1 only for an Rsa key used
\* with an RSA-PSS scheme; for an Ed25519 key with the Ed25519 scheme the
\* verification primitive is handed the stored key bytes unchanged.
C16_ReencodingOnlyForRsa ==
    op = "verify" =>
        \A i \in 1..Len(prim) :
            prim[i].key =
                IF input.key.typ = KeyType_Rsa
                       /\ input.scheme \in {Scheme_RsaSsaPssSha256, Scheme_RsaSsaPssSha512}
                THEN convert_to_pkcs1(input.key.value.value)
                ELSE input.key.value.value

(***************************************************************************)
(* The signature list of an envelope.                                      *)
(***************************************************************************)
\* a signature entry that is not an object, lacks keyid, method or sig, or
\* has a sig that is not lowercase hex
IsMalformedSignature(v) ==
    \/ v.t # "obj"
    \/ ~({"keyid", "method", "sig"} \subseteq DOMAIN v.o)
    \/ ~(v.o["sig"].t = "str" /\ IsLowerHex(v.o["sig"].s))

\* C17: if any one entry of "signatures" is malformed the whole envelope
\* fails to parse and no signature is returned; if every entry is well
\* formed, also with a method of unrecognized name, the envelope parses
\* with all of them.
C17_SignatureListAllOrNothing ==
    (op = "SignedMetadata" /\ HasBothSections(input.v)) =>
        LET sigs == input.v.o["signatures"].a
        IN  /\ (\E i \in 1..Len(sigs) : IsMalformedSignature(sigs[i])) =>
                    /\ ~result.ok
                    /\ "v" \notin DOMAIN result
            /\ (\A i \in 1..Len(sigs) : IsWellFormedSignature(sigs[i])) =>
                    /\ result.ok
                    /\ Len(result.v.signatures) = Len(sigs)

\* an envelope with one well-formed and one malformed signature has been
\* refused
C17_Witness ==
    /\ op = "SignedMetadata"
    /\ HasBothSections(input.v)
    /\ LET sigs == input.v.o["signatures"].a
       IN  /\ Len(sigs) = 2
           /\ \E i, j \in 1..2 :
                   /\ IsWellFormedSignature(sigs[i])
                   /\ ExpectedScheme(sigs[i].o["method"].s).tag = "Unsupported"
                   /\ IsMalformedSignature(sigs[j])
    /\ ~result.ok

====
